---- MODULE Spec2Model ----
(***************************************************************************)
(* Model of the nopium F1 dashboard front end: the 2D track view           *)
(* (TrackView: view transform, draw order, car trails, drag and zoom), the *)
(* 3D car's heading smoothing (Car3D useFrame), the 3D camera              *)
(* (CameraController useFrame), the post-race dashboard's per-driver       *)
(* insight fetch (RaceDashboard.handleGenerateDriverInsight), the          *)
(* telemetry history (TelemetryPanel) and the tyre recommendation of       *)
(* FilterBar and WeatherPanel.                                             *)
(***************************************************************************)
EXTENDS Integers, Sequences, FiniteSets, TLC

VARIABLES
    \* ---- TrackView (2D canvas view) ----
    trackData,          \* prop trackData: [present, hasPoints, points]
    canvas,             \* <<canvas.width, canvas.height>>
    cars,               \* prop cars (latest value passed by the parent)
    interpolatedCars,   \* useState(cars || [])
    zoom,               \* useState(1.0), a JS number
    pan,                \* useState({x: 0, y: 0})
    followCar,          \* useState(null)
    carTrails,          \* carTrailsRef.current: name -> trail (absent: no key)
    clock,              \* the last value Date.now() returned
    transform,          \* <<scale, centerX, centerY>> of the last render, << >> if none
    drawnTrack,         \* canvas points of the track outline of the last render
    drawnCars,          \* cars passed to drawCar by the last render, in draw order
    fault,              \* an uncaught exception left render()
    zoomRequest,        \* prev + delta of the last handleZoom call, << >> if none
    isDragging,         \* useState(false)
    dragStart,          \* useState({x: 0, y: 0})
    downPointer,        \* client position of the mouse-down of the drag in progress, << >> if none
    downPan,            \* pan at that mouse-down, << >> if none
    mounted,            \* the component is mounted
    pendingFrames,      \* ids of the requestAnimationFrame callbacks not yet run or cancelled
    animationFrameRef,  \* animationFrameRef.current (0: null)
    effectDue,          \* render was re-created by a commit whose effect has not run yet
    closure,            \* what the render of the pending callback captured, while effectDue
    \* ---- Car3D (3D view) ----
    carAngle,           \* prop car.angle, in hundredths of a radian
    targetRotation,     \* targetRotation.current
    currentRotation,    \* currentRotation.current
    angleDiff,          \* angleDiff of the last frame
    normalizedDiff,     \* normalizedDiff of the last frame
    \* ---- RaceDashboard ----
    generatingInsights, \* useState({}): driver -> "unset" | "true" | "false"
    mlInsights,         \* useState({}): driver -> "unset" | report
    inFlight,           \* the drivers whose POST has not settled yet
    lastSettled,        \* <<driver, outcome>> of the request that settled last
    calls,              \* driver -> invocations of handleGenerateDriverInsight so far
    posts,              \* driver -> POSTs issued to /api/driver-insight/{driver} so far
    peakInFlight,       \* the most requests that were in flight at once so far
    \* ---- TrackView3D / CameraController ----
    follow3D,           \* prop followCar of TrackView3D
    isFollowing,        \* useState(!!followCar)
    cars3D,             \* prop cars of TrackView3D
    trackCenter,        \* trackBounds.center
    controlsTarget,     \* controlsRef.current.target, <<x, y, z>>
    cameraPosition,     \* cameraRef.current.position, <<x, y, z>>
    cameraFrames,       \* CameraController frames run so far
    justFramed,         \* the last step was a CameraController frame
    targetBefore,       \* controlsTarget before that frame
    cameraBefore,       \* cameraPosition before that frame
    \* ---- TelemetryPanel ----
    selectedCar,        \* prop selectedCar
    telemetryCars,      \* prop cars
    telemetryData,      \* useState([])
    timeRef,            \* timeRef.current
    recorded,           \* every point the effect has recorded so far, in order
    selections,         \* changes of selectedCar so far
    \* ---- FilterBar / WeatherPanel ----
    weather,            \* prop weather: <<rain, track_temp>>
    filterBarTyre,      \* recommendation of FilterBar
    weatherPanelTyre    \* recommendation of WeatherPanel

dragVars  == <<isDragging, dragStart, downPointer, downPan>>
loopVars  == <<mounted, pendingFrames, animationFrameRef, effectDue, closure>>
viewVars  == <<trackData, canvas, cars, interpolatedCars, zoom, pan, followCar,
               carTrails, clock, transform, drawnTrack, drawnCars, fault, zoomRequest,
               dragVars, loopVars>>
car3DVars == <<carAngle, targetRotation, currentRotation, angleDiff, normalizedDiff>>
dashVars  == <<generatingInsights, mlInsights, inFlight, lastSettled, calls, posts,
               peakInFlight>>
cameraVars    == <<follow3D, isFollowing, cars3D, trackCenter, controlsTarget, cameraPosition,
                   cameraFrames, justFramed, targetBefore, cameraBefore>>
telemetryVars == <<selectedCar, telemetryCars, telemetryData, timeRef, recorded, selections>>
weatherVars   == <<weather, filterBarTyre, weatherPanelTyre>>
panelVars     == <<cameraVars, telemetryVars, weatherVars>>
vars      == <<viewVars, car3DVars, dashVars, panelVars>>

-----------------------------------------------------------------------------
(* JS numbers.  A finite value is an exact fraction <<n, d>> with d > 0 in   *)
(* lowest terms; Infinity is <<1, 0>>, -Infinity <<-1, 0>>, NaN <<0, 0>>.    *)
(* The sign of zero is not kept: render() never divides by a negative zero.  *)

Undefined == << >>
Null      == "null"

Abs(n) == IF n < 0 THEN -n ELSE n
Sign(n) == IF n > 0 THEN 1 ELSE IF n < 0 THEN -1 ELSE 0

RECURSIVE Gcd(_, _)
Gcd(a, b) == IF b = 0 THEN a ELSE Gcd(b, a % b)

Norm(n, d) ==
    IF d = 0 THEN <<Sign(n), 0>>
    ELSE LET g == Gcd(Abs(n), Abs(d))
             s == Sign(d)
         IN  <<(s * n) \div g, (s * d) \div g>>

Num(n)   == <<n, 1>>
NaN      == <<0, 0>>
PosInf   == <<1, 0>>
NegInf   == <<-1, 0>>
IsNaN(a) == a = NaN
IsFinite(a) == a[2] # 0

Neg(a) == <<-a[1], a[2]>>

Add(a, b) ==
    IF IsNaN(a) \/ IsNaN(b) THEN NaN
    ELSE IF a[2] = 0 /\ b[2] = 0 THEN (IF a = b THEN a ELSE NaN)
    ELSE IF a[2] = 0 THEN a
    ELSE IF b[2] = 0 THEN b
    ELSE Norm(a[1] * b[2] + b[1] * a[2], a[2] * b[2])

Sub(a, b) == Add(a, Neg(b))

Mul(a, b) ==
    IF IsNaN(a) \/ IsNaN(b) THEN NaN
    ELSE Norm(a[1] * b[1], a[2] * b[2])

Div(a, b) ==
    IF IsNaN(a) \/ IsNaN(b) THEN NaN
    ELSE IF b[2] = 0 THEN (IF a[2] = 0 THEN NaN ELSE Num(0))
    ELSE IF b[1] = 0 THEN Norm(a[1], 0)
    ELSE Norm(a[1] * b[2], a[2] * b[1])

\* a < b for JS numbers (false whenever one side is NaN)
Lt(a, b) ==
    IF IsNaN(a) \/ IsNaN(b) \/ a = b THEN FALSE
    ELSE IF a = NegInf \/ b = PosInf THEN TRUE
    ELSE IF a = PosInf \/ b = NegInf THEN FALSE
    ELSE a[1] * b[2] < b[1] * a[2]

MathMin(a, b) == IF IsNaN(a) \/ IsNaN(b) THEN NaN ELSE IF Lt(b, a) THEN b ELSE a
MathMax(a, b) == IF IsNaN(a) \/ IsNaN(b) THEN NaN ELSE IF Lt(a, b) THEN b ELSE a

\* Math.min(...xs) and Math.max(...xs): NaN if an argument is NaN, else the
\* least (greatest) one; of no arguments: Infinity and -Infinity
Values(xs) == {xs[i] : i \in 1..Len(xs)}
MinOf(xs) ==
    IF xs = << >> THEN PosInf
    ELSE IF NaN \in Values(xs) THEN NaN
    ELSE CHOOSE m \in Values(xs) : \A o \in Values(xs) : ~Lt(o, m)
MaxOf(xs) ==
    IF xs = << >> THEN NegInf
    ELSE IF NaN \in Values(xs) THEN NaN
    ELSE CHOOSE m \in Values(xs) : \A o \in Values(xs) : ~Lt(m, o)

\* a JS value used as a number: undefined becomes NaN
ToNum(v) == IF v = Undefined THEN NaN ELSE v

-----------------------------------------------------------------------------
(* TrackView: the 2D canvas view.                                            *)

Padding       == 60
TrailCapacity == 20
TrailMaxAge   == 2000
SpeedTrailMin == 50

NullTrack     == [present |-> FALSE, hasPoints |-> FALSE, points |-> << >>]
NoPointsTrack == [present |-> TRUE,  hasPoints |-> FALSE, points |-> << >>]
Track(pts)    == [present |-> TRUE,  hasPoints |-> TRUE,  points |-> pts]

Xs(points) == [i \in 1..Len(points) |-> Num(points[i][1])]
Ys(points) == [i \in 1..Len(points) |-> Num(points[i][2])]

\* interpolatedCars.find(c => c.name === followCar): the first match, 0 if none
RECURSIVE FindCar(_, _, _)
FindCar(icars, name, i) ==
    IF i > Len(icars) THEN 0
    ELSE IF icars[i].name = name THEN i
    ELSE FindCar(icars, name, i + 1)

\* a faulty variant of BaseScaleAxis: the padding is not taken off the extent
BaseScaleAxisNoPadding(extentPx, lo, hi) == Div(extentPx, Sub(hi, lo))

\* baseScaleX / baseScaleY of render(): the fit ratio of one axis
BaseScaleAxis(extentPx, lo, hi) == Div(Sub(extentPx, Num(2 * Padding)), Sub(hi, lo))

\* a faulty variant of ApplyPan: the pan offset is dropped
PanDropped(center, offset) == center

\* centerX += pan.x; centerY += pan.y
ApplyPan(center, offset) == Add(center, offset)

\* the closure  transform = (x, y) => [x * scale + centerX, y * scale + centerY]
\* of render(), as <<scale, centerX, centerY>>
ComputeTransform(points, cv, z, p, follow, icars) ==
    LET minX == MinOf(Xs(points))
        maxX == MaxOf(Xs(points))
        minY == MinOf(Ys(points))
        maxY == MaxOf(Ys(points))
        width  == Num(cv[1])
        height == Num(cv[2])
        baseScaleX == BaseScaleAxis(width, minX, maxX)
        baseScaleY == BaseScaleAxis(height, minY, maxY)
        baseScale  == MathMin(baseScaleX, baseScaleY)
        scale      == Mul(baseScale, z)
        trackCX == Sub(Div(Sub(width, Mul(Sub(maxX, minX), scale)), Num(2)), Mul(minX, scale))
        trackCY == Sub(Div(Sub(height, Mul(Sub(maxY, minY), scale)), Num(2)), Mul(minY, scale))
        k == IF follow # Null /\ Len(icars) > 0 THEN FindCar(icars, follow, 1) ELSE 0
        centerX == IF k = 0 THEN trackCX
                   ELSE Sub(Div(width, Num(2)), Mul(ToNum(icars[k].x), scale))
        centerY == IF k = 0 THEN trackCY
                   ELSE Sub(Div(height, Num(2)), Mul(ToNum(icars[k].y), scale))
    IN  <<scale, ApplyPan(centerX, p[1]), ApplyPan(centerY, p[2])>>

Transform(tf, x, y) == <<Add(Mul(x, tf[1]), tf[2]), Add(Mul(y, tf[1]), tf[3])>>

\* the sort key of render()'s comparator: (car.position || 0)
RankKey(car) == IF car.position = Undefined THEN 0 ELSE car.position[1]

\* a faulty variant of Renderable: only y is looked at
RenderableYOnly(car) == car.y # Undefined

\* .filter(car => car && car.x !== undefined && car.y !== undefined)
Renderable(car) == car.x # Undefined /\ car.y # Undefined

RECURSIVE FilterRenderable(_)
FilterRenderable(cs) ==
    IF cs = << >> THEN << >>
    ELSE IF Renderable(Head(cs)) THEN <<Head(cs)>> \o FilterRenderable(Tail(cs))
    ELSE FilterRenderable(Tail(cs))

\* a faulty variant of InsertSorted: c goes in front of the elements of equal key
RECURSIVE InsertUnstable(_, _)
InsertUnstable(c, sorted) ==
    IF sorted = << >> THEN <<c>>
    ELSE IF RankKey(Head(sorted)) < RankKey(c)
         THEN <<Head(sorted)>> \o InsertUnstable(c, Tail(sorted))
         ELSE <<c>> \o sorted

\* Array.prototype.sort is stable: c goes behind every element whose key is <= its own
RECURSIVE InsertSorted(_, _)
InsertSorted(c, sorted) ==
    IF sorted = << >> THEN <<c>>
    ELSE IF RankKey(Head(sorted)) <= RankKey(c)
         THEN <<Head(sorted)>> \o InsertSorted(c, Tail(sorted))
         ELSE <<c>> \o sorted

RECURSIVE SortByRank(_, _)
SortByRank(cs, acc) ==
    IF cs = << >> THEN acc ELSE SortByRank(Tail(cs), InsertSorted(Head(cs), acc))

\* sortedCars of render()
SortedCars(icars) == SortByRank(FilterRenderable(icars), << >>)

\* while (trail.length > 0 && now - trail[0].time > 2000) trail.shift()
RECURSIVE DropOld(_, _)
DropOld(trail, now) ==
    IF Len(trail) > 0 /\ now - trail[1].time > TrailMaxAge
    THEN DropOld(Tail(trail), now)
    ELSE trail

\* a faulty variant of UpdateTrail: the new entry goes to the front
UpdateTrailUnshift(trail, pt, t, now) ==
    LET pushed == <<[x |-> pt[1], y |-> pt[2], time |-> t]>> \o trail
        capped == IF Len(pushed) > TrailCapacity THEN Tail(pushed) ELSE pushed
    IN  DropOld(capped, now)

\* a faulty variant of UpdateTrail: the age eviction removes one entry at most
UpdateTrailSingleAge(trail, pt, t, now) ==
    LET pushed == Append(trail, [x |-> pt[1], y |-> pt[2], time |-> t])
        capped == IF Len(pushed) > TrailCapacity THEN Tail(pushed) ELSE pushed
    IN  IF Len(capped) > 0 /\ now - capped[1].time > TrailMaxAge THEN Tail(capped) ELSE capped

\* a faulty variant of UpdateTrail: without the count eviction
UpdateTrailNoCap(trail, pt, t, now) ==
    DropOld(Append(trail, [x |-> pt[1], y |-> pt[2], time |-> t]), now)

\* the trail bookkeeping of drawCarTrail: push, one count eviction, age eviction.
\* t is the Date.now() of the push, now the Date.now() of the age eviction.
UpdateTrail(trail, pt, t, now) ==
    LET pushed == Append(trail, [x |-> pt[1], y |-> pt[2], time |-> t])
        capped == IF Len(pushed) > TrailCapacity THEN Tail(pushed) ELSE pushed
    IN  DropOld(capped, now)

TrailOf(trails, name) == IF name \in DOMAIN trails THEN trails[name] ELSE << >>

\* a faulty variant of SpeedTrail: every drawn car gets its trail updated
SpeedTrailAlways(car) == TRUE

\* drawCar's test before drawCarTrail: car.speed > 50 (false for undefined)
SpeedTrail(car) == car.speed # Undefined /\ car.speed[1] > SpeedTrailMin

\* drawCar for each car of the draw list, in order: the trail of a car with
\* speed > 50 is updated (drawCarTrail), the others' are left alone
RECURSIVE DrawCars(_, _, _, _, _)
DrawCars(sorted, tf, trails, t, now) ==
    IF sorted = << >> THEN trails
    ELSE LET car == Head(sorted)
             upd == IF SpeedTrail(car)
                    THEN [n \in DOMAIN trails \cup {car.name} |->
                            IF n = car.name
                            THEN UpdateTrail(TrailOf(trails, n),
                                             Transform(tf, ToNum(car.x), ToNum(car.y)), t, now)
                            ELSE trails[n]]
                    ELSE trails
         IN  DrawCars(Tail(sorted), tf, upd, t, now)

\* render(): what one call leaves behind.  It returns before touching the canvas
\* when trackData is null; trackData.points.map throws when points is missing.
Render(td, cv, icars, z, p, follow, t, now) ==
    IF ~td.present
    THEN UNCHANGED <<transform, drawnTrack, drawnCars, carTrails, fault>>
    ELSE IF ~td.hasPoints
    THEN /\ fault' = TRUE
         /\ transform' = << >>
         /\ drawnTrack' = << >>
         /\ drawnCars' = << >>
         /\ UNCHANGED carTrails
    ELSE \E tf \in {ComputeTransform(td.points, cv, z, p, follow, icars)},
            sorted \in {IF Len(icars) > 0 THEN SortedCars(icars) ELSE << >>} :
             /\ transform' = tf
             /\ drawnTrack' = [i \in 1..Len(td.points) |->
                                  Transform(tf, Num(td.points[i][1]), Num(td.points[i][2]))]
             /\ drawnCars' = sorted
             /\ carTrails' = DrawCars(sorted, tf, carTrails, t, now)
             /\ UNCHANGED fault

\* requestAnimationFrame ids.  Only their identity matters: the id of a callback
\* that ran or was cancelled is free again, and the least free one is handed out.
FrameIds == 1..3
FreshId(pend) == CHOOSE id \in FrameIds \ pend : \A o \in FrameIds \ pend : id <= o

\* a faulty variant of Cleanup: the pending callback is not cancelled
CleanupNothing(pend, ref) == pend

\* the effect's cleanup: if (animationFrameRef.current) cancelAnimationFrame(...)
Cleanup(pend, ref) == IF ref # 0 THEN pend \ {ref} ELSE pend

\* the last statement of render(), reached only if render() ran to its end:
\* animationFrameRef.current = requestAnimationFrame(render).
\* pend is the set of pending callbacks when render() was called.
RequestFrame(td, pend) ==
    IF td.present /\ td.hasPoints
    THEN \E id \in {FreshId(pend)} :
            /\ pendingFrames' = pend \cup {id}
            /\ animationFrameRef' = id
    ELSE /\ pendingFrames' = pend
         /\ UNCHANGED animationFrameRef

\* the values a render callback captured: its useCallback dependencies
Captured(td, icars, z, p, follow) ==
    [trackData |-> td, interpolatedCars |-> icars, zoom |-> z, pan |-> p, followCar |-> follow]

\* the cars the minimap's ref callback draws: none unless the track has points
\* and there are cars
MinimapCars(td, icars) ==
    IF td.present /\ td.hasPoints /\ Len(td.points) > 0 /\ Len(icars) > 0
    THEN FilterRenderable(icars) ELSE << >>

\* the cars TrackView3D mounts a Car3D for, from its cars prop
Cars3D(cs) == FilterRenderable(cs)

\* handleZoom: Math.max(0.5, Math.min(3.0, prev + delta))
ZoomMin == <<1, 2>>
ZoomMax == Num(3)
\* prev + delta, the value handleZoom clamps
ZoomUnclamped(prev, delta) == Add(prev, delta)
ZoomOf(prev, delta) == MathMax(ZoomMin, MathMin(ZoomMax, Add(prev, delta)))

NoPan == <<Num(0), Num(0)>>

\* The state of a freshly mounted TrackView that was given no track and no cars.
ViewInit ==
    /\ trackData = NullTrack
    /\ canvas = <<1200, 800>>
    /\ cars = << >>
    /\ interpolatedCars = << >>
    /\ zoom = Num(1)
    /\ pan = NoPan
    /\ followCar = Null
    /\ carTrails = << >>
    /\ clock = 0
    /\ transform = << >>
    /\ drawnTrack = << >>
    /\ drawnCars = << >>
    /\ fault = FALSE
    /\ zoomRequest = << >>
    /\ isDragging = FALSE
    /\ dragStart = NoPan
    /\ downPointer = << >>
    /\ downPan = << >>
    /\ mounted = TRUE
    /\ pendingFrames = {}
    /\ animationFrameRef = 0
    /\ effectDue = FALSE
    /\ closure = Undefined

\* A new trackData prop: render is re-created and the effect calls it.
SetTrackData(td) ==
    /\ mounted /\ ~fault /\ ~effectDue
    /\ trackData' = td
    /\ Render(td, canvas, interpolatedCars, zoom, pan, followCar, clock, clock)
    /\ RequestFrame(td, Cleanup(pendingFrames, animationFrameRef))
    /\ UNCHANGED <<canvas, cars, interpolatedCars, zoom, pan, followCar, clock, zoomRequest,
                   dragVars, mounted, effectDue, closure, car3DVars, dashVars, panelVars>>

\* A new cars prop, dt ms after the last Date.now(): the effect copies a
\* non-empty array into interpolatedCars, then the re-created render runs.
SetCars(cs, dt, eps) ==
    /\ mounted /\ ~fault /\ ~effectDue
    /\ cars' = cs
    /\ interpolatedCars' = IF Len(cs) > 0 THEN cs ELSE interpolatedCars
    /\ clock' = clock + dt + eps
    /\ Render(trackData, canvas, interpolatedCars', zoom, pan, followCar, clock + dt, clock + dt + eps)
    /\ RequestFrame(trackData, Cleanup(pendingFrames, animationFrameRef))
    /\ UNCHANGED <<trackData, canvas, zoom, pan, followCar, zoomRequest,
                   dragVars, mounted, effectDue, closure, car3DVars, dashVars, panelVars>>

\* The Zoom In / Zoom Out buttons: handleZoom(0.1), handleZoom(-0.1).
HandleZoom(delta) ==
    /\ mounted /\ ~fault /\ ~effectDue
    /\ zoomRequest' = ZoomUnclamped(zoom, delta)
    /\ zoom' = ZoomOf(zoom, delta)
    /\ Render(trackData, canvas, interpolatedCars, zoom', pan, followCar, clock, clock)
    /\ RequestFrame(trackData, Cleanup(pendingFrames, animationFrameRef))
    /\ UNCHANGED <<trackData, canvas, cars, interpolatedCars, pan, followCar, clock,
                   dragVars, mounted, effectDue, closure, car3DVars, dashVars, panelVars>>

\* The Reset View button.
ResetView ==
    /\ mounted /\ ~fault /\ ~effectDue
    /\ zoom' = Num(1)
    /\ pan' = NoPan
    /\ followCar' = Null
    /\ zoomRequest' = << >>
    /\ Render(trackData, canvas, interpolatedCars, zoom', pan', followCar', clock, clock)
    /\ RequestFrame(trackData, Cleanup(pendingFrames, animationFrameRef))
    /\ UNCHANGED <<trackData, canvas, cars, interpolatedCars, clock,
                   dragVars, mounted, effectDue, closure, car3DVars, dashVars, panelVars>>

\* The requestAnimationFrame callback: render() again, dt ms after the last
\* Date.now(); eps ms pass between drawCarTrail's two Date.now() calls.
\* A frame is pending only if the last render() ran to its end.
AnimationFrame(dt, eps) ==
    /\ mounted /\ ~fault /\ ~effectDue
    /\ trackData.present
    /\ \E id \in pendingFrames :
          RequestFrame(trackData, pendingFrames \ {id})
    /\ clock' = clock + dt + eps
    /\ Render(trackData, canvas, interpolatedCars, zoom, pan, followCar, clock + dt, clock + dt + eps)
    /\ UNCHANGED <<trackData, canvas, cars, interpolatedCars, zoom, pan, followCar, zoomRequest,
                   dragVars, mounted, effectDue, closure, car3DVars, dashVars, panelVars>>

\* handleCarClick(carName): follow that car, or stop following it.  (The
\* component defines the handler; the canvas's onClick does not call it yet.)
HandleCarClick(carName) ==
    /\ mounted /\ ~fault /\ ~effectDue
    /\ followCar' = IF followCar = carName THEN Null ELSE carName
    /\ Render(trackData, canvas, interpolatedCars, zoom, pan, followCar', clock, clock)
    /\ RequestFrame(trackData, Cleanup(pendingFrames, animationFrameRef))
    /\ UNCHANGED <<trackData, canvas, cars, interpolatedCars, zoom, pan, clock, zoomRequest,
                   dragVars, mounted, effectDue, closure, car3DVars, dashVars, panelVars>>

\* the pan stops this many pixels from the origin
MaxPan == 30

\* a faulty variant of PanOnMove: the move pans whether a drag is on or not
PanOnMoveAlways(dragging, p, e, ds) == <<Sub(Num(e[1]), ds[1]), Sub(Num(e[2]), ds[2])>>

\* handleMouseMove's state update: if (isDragging) setPan({x: e.clientX -
\* dragStart.x, y: e.clientY - dragStart.y})
PanOnMove(dragging, p, e, ds) ==
    IF dragging THEN <<Sub(Num(e[1]), ds[1]), Sub(Num(e[2]), ds[2])>> ELSE p

\* handleMouseDown at client position e with button (0: left): only the left
\* button starts a drag.  Neither state is a dependency of render, so no
\* effect runs.
HandleMouseDown(e, button) ==
    /\ mounted /\ ~fault /\ ~effectDue
    /\ IF button = 0
       THEN /\ isDragging' = TRUE
            /\ dragStart' = <<Sub(Num(e[1]), pan[1]), Sub(Num(e[2]), pan[2])>>
            /\ downPointer' = e
            /\ downPan' = pan
       ELSE UNCHANGED dragVars
    /\ UNCHANGED <<trackData, canvas, cars, interpolatedCars, zoom, pan, followCar, carTrails,
                   clock, transform, drawnTrack, drawnCars, fault, zoomRequest, loopVars,
                   car3DVars, dashVars, panelVars>>

\* handleMouseMove at client position e: while dragging the new pan re-creates
\* render and the effect calls it; otherwise nothing happens.
HandleMouseMove(e) ==
    /\ mounted /\ ~fault /\ ~effectDue
    /\ \E np \in {PanOnMove(isDragging, pan, e, dragStart)} :
          /\ Abs(np[1][1]) <= MaxPan * np[1][2]
          /\ Abs(np[2][1]) <= MaxPan * np[2][2]
          /\ pan' = np
    /\ IF isDragging
       THEN /\ Render(trackData, canvas, interpolatedCars, zoom, pan', followCar, clock, clock)
            /\ RequestFrame(trackData, Cleanup(pendingFrames, animationFrameRef))
       ELSE UNCHANGED <<transform, drawnTrack, drawnCars, carTrails, fault,
                        pendingFrames, animationFrameRef>>
    /\ UNCHANGED <<trackData, canvas, cars, interpolatedCars, zoom, followCar, clock, zoomRequest,
                   dragVars, mounted, effectDue, closure, car3DVars, dashVars, panelVars>>

\* handleMouseUp (also the onMouseLeave handler)
HandleMouseUp ==
    /\ mounted /\ ~fault /\ ~effectDue
    /\ isDragging' = FALSE
    /\ downPointer' = << >>
    /\ downPan' = << >>
    /\ UNCHANGED <<trackData, canvas, cars, interpolatedCars, zoom, pan, followCar, carTrails,
                   clock, transform, drawnTrack, drawnCars, fault, zoomRequest, dragStart,
                   loopVars, car3DVars, dashVars, panelVars>>

\* A new trackData prop is committed; the effect of the re-created render has
\* not run yet, and the pending callback is still the render that was replaced.
CommitTrackData(td) ==
    /\ mounted /\ ~fault /\ ~effectDue
    /\ trackData' = td
    /\ effectDue' = TRUE
    /\ closure' = Captured(trackData, interpolatedCars, zoom, pan, followCar)
    /\ UNCHANGED <<canvas, cars, interpolatedCars, zoom, pan, followCar, carTrails, clock,
                   transform, drawnTrack, drawnCars, fault, zoomRequest, dragVars, mounted,
                   pendingFrames, animationFrameRef, car3DVars, dashVars, panelVars>>

\* A new non-empty cars prop is committed and copied into interpolatedCars;
\* the effect of the re-created render has not run yet.
CommitCars(cs) ==
    /\ mounted /\ ~fault /\ ~effectDue
    /\ Len(cs) > 0
    /\ cars' = cs
    /\ interpolatedCars' = cs
    /\ effectDue' = TRUE
    /\ closure' = Captured(trackData, interpolatedCars, zoom, pan, followCar)
    /\ UNCHANGED <<trackData, canvas, zoom, pan, followCar, carTrails, clock,
                   transform, drawnTrack, drawnCars, fault, zoomRequest, dragVars, mounted,
                   pendingFrames, animationFrameRef, car3DVars, dashVars, panelVars>>

\* The pending callback runs before the effect: it is the replaced render, which
\* draws what it captured and requests the next frame for itself.
StaleFrame(dt, eps) ==
    /\ mounted /\ ~fault /\ effectDue
    /\ \E id \in pendingFrames :
          RequestFrame(closure.trackData, pendingFrames \ {id})
    /\ clock' = clock + dt + eps
    /\ Render(closure.trackData, canvas, closure.interpolatedCars, closure.zoom, closure.pan,
              closure.followCar, clock + dt, clock + dt + eps)
    /\ UNCHANGED <<trackData, canvas, cars, interpolatedCars, zoom, pan, followCar, zoomRequest,
                   dragVars, mounted, effectDue, closure, car3DVars, dashVars, panelVars>>

\* The effect of the re-created render: the cleanup of the previous effect
\* cancels the frame animationFrameRef names, then the new render() runs.
FlushEffect ==
    /\ mounted /\ ~fault /\ effectDue
    /\ effectDue' = FALSE
    /\ closure' = Undefined
    /\ Render(trackData, canvas, interpolatedCars, zoom, pan, followCar, clock, clock)
    /\ RequestFrame(trackData, Cleanup(pendingFrames, animationFrameRef))
    /\ UNCHANGED <<trackData, canvas, cars, interpolatedCars, zoom, pan, followCar, clock,
                   zoomRequest, dragVars, mounted, car3DVars, dashVars, panelVars>>

\* The component is unmounted: the cleanup of the last effect runs, an effect
\* that was still due never does.
Unmount ==
    /\ mounted
    /\ mounted' = FALSE
    /\ pendingFrames' = Cleanup(pendingFrames, animationFrameRef)
    /\ effectDue' = FALSE
    /\ closure' = Undefined
    /\ UNCHANGED <<trackData, canvas, cars, interpolatedCars, zoom, pan, followCar, carTrails,
                   clock, transform, drawnTrack, drawnCars, fault, zoomRequest, dragVars,
                   animationFrameRef, car3DVars, dashVars, panelVars>>

-----------------------------------------------------------------------------
(* Car3D: the heading smoothing of the 3D view's useFrame callback.  Angles  *)
(* are in hundredths of a radian (Pi is 314 of them); the product with the   *)
(* smoothing factor 0.1 is rounded toward zero to that unit.                 *)

Pi    == 314
TwoPi == 2 * Pi

\* frames stop once the accumulated rotation is this far from 0
MaxRotation == 1000

\* the JS remainder a % m for m > 0: it has the sign of a
JsRem(a, m) == IF a >= 0 THEN a % m ELSE -((-a) % m)

\* n * 0.1
Tenth(n) == IF n >= 0 THEN n \div 10 ELSE -((-n) \div 10)

\* normalizedDiff = ((angleDiff + Math.PI) % (2 * Math.PI)) - Math.PI
NormalizedDiff(diff) == JsRem(diff + Pi, TwoPi) - Pi

\* a freshly mounted Car3D whose car heads along +x
Car3DIdle ==
    /\ carAngle = 0 /\ targetRotation = 0 /\ currentRotation = 0
    /\ angleDiff = 0 /\ normalizedDiff = 0

\* The parent passes a car sample with another angle.
SetCarAngle(a) ==
    /\ carAngle' = a
    /\ UNCHANGED <<targetRotation, currentRotation, angleDiff, normalizedDiff, viewVars, dashVars, panelVars>>

\* One useFrame callback: the target is car.angle + PI/2, and the rotation
\* moves a tenth of the normalized difference toward it.
Car3DFrame ==
    /\ Abs(currentRotation) <= MaxRotation
    /\ targetRotation' = carAngle + Pi \div 2
    /\ angleDiff' = targetRotation' - currentRotation
    /\ normalizedDiff' = NormalizedDiff(angleDiff')
    /\ currentRotation' = currentRotation + Tenth(normalizedDiff')
    /\ UNCHANGED <<carAngle, viewVars, dashVars, panelVars>>

(* RaceDashboard: the per-driver insight fetch.                               *)

Drivers == {"Hamilton", "Verstappen", "Leclerc"}
Reports == {"report1", "report2"}

\* How a POST /api/driver-insight/{driverName} can end:
\*   ok                2xx, {success: true, insights: report}
\*   successFalse      2xx, {success: false, error}
\*   noInsights        2xx, success true without insights
\*   badBody           2xx, response.json() rejects
\*   non2xx            non-2xx, {detail}
\*   non2xxBadBody     non-2xx, response.json() rejects (caught: 'Unknown error')
\*   networkError      fetch rejects
Failures == {"successFalse", "noInsights", "badBody", "non2xx", "non2xxBadBody", "networkError"}
Outcomes == {"ok"} \cup Failures

\* a freshly mounted RaceDashboard
DashIdle ==
    /\ generatingInsights = [d \in Drivers |-> "unset"]
    /\ mlInsights = [d \in Drivers |-> "unset"]
    /\ inFlight = {}
    /\ lastSettled = << >>
    /\ calls = [d \in Drivers |-> 0]
    /\ posts = [d \in Drivers |-> 0]
    /\ peakInFlight = 0

\* the handler is invoked at most this many times in all
MaxCalls == 4

RECURSIVE SumOf(_, _)
SumOf(f, S) == IF S = {} THEN 0
               ELSE LET d == CHOOSE e \in S : TRUE IN f[d] + SumOf(f, S \ {d})

\* handleGenerateDriverInsight up to its await, with its one fetch(...) call:
\* the button of a driver whose flag is true is disabled.
GenerateDriverInsight(d) ==
    /\ generatingInsights[d] # "true"
    /\ SumOf(calls, Drivers) < MaxCalls
    /\ generatingInsights' = [generatingInsights EXCEPT ![d] = "true"]
    /\ inFlight' = inFlight \cup {d}
    /\ calls' = [calls EXCEPT ![d] = @ + 1]
    /\ posts' = [posts EXCEPT ![d] = @ + 1]
    /\ peakInFlight' = IF Cardinality(inFlight') > peakInFlight
                        THEN Cardinality(inFlight') ELSE peakInFlight
    /\ UNCHANGED <<mlInsights, lastSettled, viewVars, car3DVars, panelVars>>

\* a faulty variant of MlInsightsAfter: the update spreads the empty cache the
\* handler's render saw, not the cache of the moment
MlInsightsOverwrite(ml, d, outcome, report) ==
    IF outcome = "ok" THEN [e \in Drivers |-> IF e = d THEN report ELSE "unset"] ELSE ml

\* a faulty variant of PostsAfter: a failed request is sent again
PostsAfterRetry(p, d, outcome) ==
    IF outcome \in Failures THEN [p EXCEPT ![d] = @ + 1] ELSE p

\* the POSTs issued once the request of driver d ended with outcome: the
\* branches after the await, catch and finally call fetch no more
PostsAfter(p, d, outcome) == p

\* a faulty variant of MlInsightsAfter: data.insights is stored whatever the
\* outcome (it is undefined after a failure)
MlInsightsUnchecked(ml, d, outcome, report) ==
    [ml EXCEPT ![d] = IF outcome = "ok" THEN report ELSE "unset"]

\* the report cache after the request of driver d ended with outcome
MlInsightsAfter(ml, d, outcome, report) ==
    IF outcome = "ok" THEN [ml EXCEPT ![d] = report] ELSE ml

\* a faulty variant of FlagAfter: only the success path clears the flag
FlagAfterOkOnly(outcome) == IF outcome = "ok" THEN "false" ELSE "true"

\* the driver's generating flag once the request ended with outcome: finally
\* sets it to false on every path
FlagAfter(outcome) == "false"

\* handleGenerateDriverInsight from the settled fetch to the end of finally.
SettleDriverInsight(d, outcome, report) ==
    /\ d \in inFlight
    /\ mlInsights' = MlInsightsAfter(mlInsights, d, outcome, report)
    /\ generatingInsights' = [generatingInsights EXCEPT ![d] = FlagAfter(outcome)]
    /\ inFlight' = inFlight \ {d}
    /\ lastSettled' = <<d, outcome>>
    /\ posts' = PostsAfter(posts, d, outcome)
    /\ UNCHANGED <<calls, peakInFlight, viewVars, car3DVars, panelVars>>

-----------------------------------------------------------------------------
(* TrackView3D: the CameraController's useFrame callback.                     *)

\* Vector3.lerp(v, alpha): this += (v - this) * alpha, per component
Lerp(from, to, alpha) ==
    <<Add(from[1], Mul(Sub(to[1], from[1]), alpha)),
      Add(from[2], Mul(Sub(to[2], from[2]), alpha)),
      Add(from[3], Mul(Sub(to[3], from[3]), alpha))>>

CameraAlpha == <<1, 20>>

\* Math.cos / Math.sin of a heading given in hundredths of a radian, for the
\* headings the samples use (0 and pi/2), to the nearest hundredth
Cos(a) == IF a = 0 THEN Num(1) ELSE Num(0)
Sin(a) == IF a = 0 THEN Num(0) ELSE Num(1)

\* trackBounds.center: [0, 0] without track points, else the centre of the
\* bounding box
TrackBoundsCenter(td) ==
    IF ~td.present \/ ~td.hasPoints \/ Len(td.points) = 0 THEN <<Num(0), Num(0)>>
    ELSE <<Div(Add(MinOf(Xs(td.points)), MaxOf(Xs(td.points))), Num(2)),
           Div(Add(MinOf(Ys(td.points)), MaxOf(Ys(td.points))), Num(2))>>

\* the OrbitControls target prop: [trackCenter[0], 0, trackCenter[1]]
CenterTarget(c) == <<c[1], Num(0), c[2]>>

\* the CameraController frames stop after this many
MaxCameraFrames == 3

\* the PerspectiveCamera the controller makes the default one is created
\* without a position prop (the adjustments OrbitControls makes to the camera
\* on its own update are left out)
InitialCamera == <<Num(0), Num(0), Num(0)>>

\* a freshly mounted TrackView3D without track, cars or followed car
CameraIdle ==
    /\ follow3D = Null /\ isFollowing = FALSE
    /\ cars3D = << >>
    /\ trackCenter = <<Num(0), Num(0)>>
    /\ controlsTarget = CenterTarget(<<Num(0), Num(0)>>)
    /\ cameraPosition = InitialCamera
    /\ cameraFrames = 0 /\ justFramed = FALSE
    /\ targetBefore = << >> /\ cameraBefore = << >>

\* A new followCar prop; the effect sets isFollowing to !!followCar.
SetFollow3D(name) ==
    /\ follow3D' = name
    /\ isFollowing' = (name # Null)
    /\ justFramed' = FALSE
    /\ UNCHANGED <<cars3D, trackCenter, controlsTarget, cameraPosition, cameraFrames,
                   targetBefore, cameraBefore, telemetryVars, weatherVars,
                   viewVars, car3DVars, dashVars>>

\* A new cars prop.
SetCars3D(cs) ==
    /\ cars3D' = cs
    /\ justFramed' = FALSE
    /\ UNCHANGED <<follow3D, isFollowing, trackCenter, controlsTarget, cameraPosition,
                   cameraFrames, targetBefore, cameraBefore, telemetryVars, weatherVars,
                   viewVars, car3DVars, dashVars>>

\* A new trackData prop: trackBounds is recomputed and the OrbitControls target
\* prop moves the target to the new centre.
SetTrack3D(td) ==
    /\ trackCenter' = TrackBoundsCenter(td)
    /\ controlsTarget' = IF trackCenter' # trackCenter
                          THEN CenterTarget(trackCenter') ELSE controlsTarget
    /\ justFramed' = FALSE
    /\ UNCHANGED <<follow3D, isFollowing, cars3D, cameraPosition, cameraFrames,
                   targetBefore, cameraBefore, telemetryVars, weatherVars,
                   viewVars, car3DVars, dashVars>>

\* One useFrame callback of CameraController.  The branch that looks at the
\* track centre is the else of the inner if, inside the outer if.
CameraFrame ==
    /\ cameraFrames < MaxCameraFrames
    /\ cameraFrames' = cameraFrames + 1
    /\ justFramed' = TRUE
    /\ targetBefore' = controlsTarget
    /\ cameraBefore' = cameraPosition
    /\ IF isFollowing /\ follow3D # Null /\ Len(cars3D) > 0
       THEN \E k \in {FindCar(cars3D, follow3D, 1)} :
              IF k # 0
              THEN /\ cameraPosition' =
                        Lerp(cameraPosition,
                             <<Add(cars3D[k].x, Mul(Cos(cars3D[k].angle), Num(30))),
                               Num(25),
                               Add(cars3D[k].y, Mul(Sin(cars3D[k].angle), Num(30)))>>,
                             CameraAlpha)
                   /\ controlsTarget' =
                        Lerp(controlsTarget, <<cars3D[k].x, Num(0), cars3D[k].y>>, CameraAlpha)
              ELSE IF ~isFollowing
              THEN /\ controlsTarget' = Lerp(controlsTarget, CenterTarget(trackCenter), CameraAlpha)
                   /\ UNCHANGED cameraPosition
              ELSE UNCHANGED <<controlsTarget, cameraPosition>>
       ELSE UNCHANGED <<controlsTarget, cameraPosition>>
    /\ UNCHANGED <<follow3D, isFollowing, cars3D, trackCenter, telemetryVars, weatherVars,
                   viewVars, car3DVars, dashVars>>

-----------------------------------------------------------------------------
(* TelemetryPanel: the effect that records one point per change of           *)
(* selectedCar or cars.                                                      *)

maxDataPoints == 50

\* v || 0 for a JS number or undefined
OrZero(v) == IF v = Undefined \/ v = NaN \/ v = Num(0) THEN Num(0) ELSE v

\* newPoint of the effect, for the car found
NewPoint(time, car) ==
    [time |-> time, speed |-> OrZero(car.speed),
     throttle |-> Mul(OrZero(car.throttle), Num(100)),
     brake |-> Mul(OrZero(car.brake), Num(100)), rpm |-> OrZero(car.rpm)]

\* a faulty variant of LastN: nothing is sliced off
KeepAll(seq, n) == seq

\* updated.slice(-n)
LastN(seq, n) ==
    IF Len(seq) <= n THEN seq ELSE SubSeq(seq, Len(seq) - n + 1, Len(seq))

\* a faulty variant of PrevData: a change of selectedCar starts a new history
PrevDataReset(prev, selectionChanged) == IF selectionChanged THEN << >> ELSE prev

\* prev of the updater passed to setTelemetryData: the history of the moment,
\* whether the effect ran for a change of selectedCar or of cars
PrevData(prev, selectionChanged) == prev

\* timeRef.current stops here
MaxTime == 52
\* changes of selectedCar stop after this many
MaxSelections == 2

TelemetryIdle ==
    /\ selectedCar = Null /\ telemetryCars = << >>
    /\ telemetryData = << >> /\ timeRef = 0
    /\ recorded = << >> /\ selections = 0

\* The effect body, for the props sel and cs of the commit that triggered it.
TelemetryEffect(sel, cs, selectionChanged) ==
    IF sel = Null THEN UNCHANGED <<telemetryData, timeRef, recorded>>
    ELSE \E k \in {FindCar(cs, sel, 1)} :
           IF k = 0 THEN UNCHANGED <<telemetryData, timeRef, recorded>>
           ELSE /\ timeRef < MaxTime
                /\ timeRef' = timeRef + 1
                /\ telemetryData' =
                     LastN(Append(PrevData(telemetryData, selectionChanged),
                                  NewPoint(timeRef, cs[k])), maxDataPoints)
                /\ recorded' = Append(recorded, NewPoint(timeRef, cs[k]))

\* The parent passes another selectedCar; the effect runs.
SelectCar(name) ==
    /\ name # selectedCar
    /\ selections < MaxSelections
    /\ selections' = selections + 1
    /\ selectedCar' = name
    /\ TelemetryEffect(name, telemetryCars, TRUE)
    /\ UNCHANGED <<telemetryCars, cameraVars, weatherVars, viewVars, car3DVars, dashVars>>

\* The parent passes a new cars array; the effect runs.
TelemetryTick(cs) ==
    /\ telemetryCars' = cs
    /\ TelemetryEffect(selectedCar, cs, FALSE)
    /\ UNCHANGED <<selectedCar, selections, cameraVars, weatherVars, viewVars, car3DVars,
                   dashVars>>

-----------------------------------------------------------------------------
(* FilterBar and WeatherPanel: the tyre recommendation each one renders.     *)

RainWet  == <<3, 10>>
TempSoft == 35
TempHard == 20

\* getTyreRecommendation of FilterBar.jsx
FilterBarTyreWetFrom(rain, trackTemp) ==
    IF ~Lt(rain, RainWet) /\ ~IsNaN(rain) THEN "WET"
    ELSE IF Lt(Num(TempSoft), trackTemp) THEN "SOFT"
    ELSE IF Lt(trackTemp, Num(TempHard)) THEN "HARD"
    ELSE "MEDIUM"

FilterBarTyre(rain, trackTemp) ==
    IF Lt(RainWet, rain) THEN "WET"
    ELSE IF Lt(Num(TempSoft), trackTemp) THEN "SOFT"
    ELSE IF Lt(trackTemp, Num(TempHard)) THEN "HARD"
    ELSE "MEDIUM"

\* getTyreRecommendation of WeatherPanel.jsx
WeatherPanelTyre(rain, trackTemp) ==
    IF Lt(RainWet, rain) THEN "WET"
    ELSE IF Lt(Num(TempSoft), trackTemp) THEN "SOFT"
    ELSE IF Lt(trackTemp, Num(TempHard)) THEN "HARD"
    ELSE "MEDIUM"

\* the default prop { rain: 0, track_temp: 25, wind: 0 }
DefaultWeather == <<Num(0), Num(25)>>

WeatherIdle ==
    /\ weather = DefaultWeather
    /\ filterBarTyre = FilterBarTyre(DefaultWeather[1], DefaultWeather[2])
    /\ weatherPanelTyre = WeatherPanelTyre(DefaultWeather[1], DefaultWeather[2])

\* The parent passes a new weather prop; both components render.
SetWeather(rain, trackTemp) ==
    /\ weather' = <<rain, trackTemp>>
    /\ filterBarTyre' = FilterBarTyre(rain, trackTemp)
    /\ weatherPanelTyre' = WeatherPanelTyre(rain, trackTemp)
    /\ UNCHANGED <<cameraVars, telemetryVars, viewVars, car3DVars, dashVars>>

\* Every component freshly mounted.
Init == ViewInit /\ Car3DIdle /\ DashIdle /\ CameraIdle /\ TelemetryIdle /\ WeatherIdle

-----------------------------------------------------------------------------
Ranks == {Undefined, <<1>>, <<2>>}

Sample(name, x, y, position, speed) ==
    [name |-> name, x |-> x, y |-> y, position |-> position, speed |-> speed]

\* Car samples the race feed may deliver: a rank may be missing, and so may a
\* coordinate or the speed.  None is faster than 50, so none leaves a trail.
SamplesOf(name) ==
    IF name = "HAM" THEN {Sample(name, Num(2), Num(3), r, <<50>>) : r \in Ranks}
    ELSE IF name = "VER"
    THEN {Sample(name, Num(8), Num(1), r, <<50>>) : r \in Ranks}
            \cup {Sample(name, Undefined, Num(1), <<1>>, <<50>>)}
    ELSE {Sample(name, Num(5), Num(9), r, Undefined) : r \in Ranks}
            \cup {Sample(name, Num(5), Undefined, <<2>>, <<50>>)}

CarLists ==
    {<< >>}
    \cup {<<a>> : a \in SamplesOf("HAM")}
    \cup {<<a, b>> : a \in SamplesOf("HAM"), b \in SamplesOf("VER")}
    \cup {<<a, b, c>> : a \in SamplesOf("HAM"), b \in SamplesOf("VER"), c \in SamplesOf("LEC")}

SquareTrack == Track(<< <<0, 0>>, <<10, 0>>, <<10, 10>>, <<0, 10>> >>)
WideTrack   == Track(<< <<-20, 5>>, <<40, 5>>, <<40, 25>>, <<-20, 25>> >>)

\* Tracks the parent may pass once it has loaded one: without a points list,
\* empty, regular, and with a bounding box of zero width, height or both.
TrackInputs ==
    { NoPointsTrack, Track(<< >>), SquareTrack, WideTrack,
      Track(<< <<0, 0>>, <<7, 0>>, <<3, 9>> >>),
      Track(<< <<7, 0>>, <<7, 10>>, <<7, 20>> >>),
      Track(<< <<0, 4>>, <<10, 4>>, <<20, 4>> >>),
      Track(<< <<3, 3>>, <<3, 3>>, <<3, 3>> >>) }

ZoomDeltas == {<<1, 10>>, <<-1, 10>>}

FewCarLists ==
    { << >>,
      <<Sample("HAM", Num(2), Num(3), <<1>>, <<50>>)>>,
      <<Sample("HAM", Num(2), Num(3), <<2>>, <<50>>), Sample("VER", Num(8), Num(1), <<1>>, <<50>>)>> }

(* The 2D view under track, zoom and reset changes, with few car sets.       *)
ViewNext ==
    \/ \E td \in TrackInputs : SetTrackData(td)
    \/ \E cs \in FewCarLists : SetCars(cs, 0, 0)
    \/ \E d \in ZoomDeltas : HandleZoom(d)
    \/ ResetView
    \/ AnimationFrame(0, 0)

SpecView == Init /\ [][ViewNext]_vars

(* The 2D view at zoom 1 under every car set, on two regular tracks.          *)
DrawNext ==
    \/ \E td \in {SquareTrack, WideTrack} : SetTrackData(td)
    \/ \E cs \in CarLists : SetCars(cs, 0, 0)
    \/ AnimationFrame(0, 0)

SpecDraw == Init /\ [][DrawNext]_vars

(* The 2D view under drags, car clicks, zoom and reset on two regular tracks. *)
(* A followed car may be one whose sample lacks a coordinate, or one that is *)
(* not in the car set at all.                                                *)
MousePoints == {<<100, 100>>, <<130, 80>>}
\* e.button: left and right
MouseButtons == {0, 2}
CarNames    == {"HAM", "VER", "LEC"}

FollowCarLists ==
    { <<Sample("HAM", Num(2), Num(3), <<1>>, <<50>>)>>,
      <<Sample("HAM", Num(2), Num(3), <<2>>, <<50>>), Sample("VER", Num(8), Num(1), <<1>>, <<50>>)>>,
      <<Sample("HAM", Num(2), Num(3), <<2>>, <<50>>), Sample("VER", Undefined, Num(1), <<1>>, <<50>>)>> }

PanNext ==
    \/ \E td \in {SquareTrack, WideTrack} : SetTrackData(td)
    \/ \E cs \in FollowCarLists : SetCars(cs, 0, 0)
    \/ \E d \in ZoomDeltas : HandleZoom(d)
    \/ \E n \in CarNames : HandleCarClick(n)
    \/ \E e \in MousePoints, b \in MouseButtons : HandleMouseDown(e, b)
    \/ \E e \in MousePoints : HandleMouseMove(e)
    \/ HandleMouseUp
    \/ ResetView
    \/ AnimationFrame(0, 0)

SpecPan == Init /\ [][PanNext]_vars

(* The render loop of one view under track, cars, zoom, pan and follow       *)
(* changes.  A new prop is either flushed at once or committed first, and    *)
(* then the pending callback of the replaced render may run before the       *)
(* effect does; the view may be unmounted at any time.                       *)
LoopTracks == {SquareTrack, WideTrack, NoPointsTrack}

LoopNext ==
    \/ \E td \in LoopTracks : SetTrackData(td)
    \/ \E td \in LoopTracks : CommitTrackData(td)
    \/ \E cs \in FewCarLists : CommitCars(cs)
    \/ StaleFrame(0, 0)
    \/ FlushEffect
    \/ AnimationFrame(0, 0)
    \/ HandleZoom(<<1, 10>>)
    \/ HandleCarClick("HAM")
    \/ \E e \in MousePoints, b \in MouseButtons : HandleMouseDown(e, b)
    \/ \E e \in MousePoints : HandleMouseMove(e)
    \/ HandleMouseUp
    \/ ResetView
    \/ Unmount

SpecLoop == Init /\ [][LoopNext]_vars

(* Fast cars on the square track: HAM always has both coordinates, VER may    *)
(* lack x, LEC always lacks y or both.                                       *)
FastCarLists ==
    { <<Sample("HAM", Num(2), Num(3), <<1>>, <<80>>)>>,
      <<Sample("LEC", Num(5), Undefined, <<1>>, <<80>>)>> }
    \cup { <<Sample("HAM", Num(2), Num(3), <<2>>, <<80>>), v, l>> :
             v \in { Sample("VER", Num(8), Num(1), <<1>>, <<80>>),
                     Sample("VER", Undefined, Num(1), <<1>>, <<80>>) },
             l \in { Sample("LEC", Num(5), Undefined, <<3>>, <<80>>),
                     Sample("LEC", Undefined, Undefined, Undefined, <<80>>) } }

SamplesNext ==
    \/ SetTrackData(SquareTrack)
    \/ \E cs \in FastCarLists : SetCars(cs, 0, 0)
    \/ AnimationFrame(0, 0)

SpecSamples == Init /\ [][SamplesNext]_vars

(* One car on the square track over time: each new sample says whether it is *)
(* fast enough for a trail or not.  Frames and samples come in the same      *)
(* millisecond, a second or 2.5 seconds later, and drawCarTrail's second     *)
(* Date.now() may read a later time than its first.                          *)
MaxClock == 4000
TimeSteps == {0, 1000, 2500}
ReadGaps  == {0, 1000}
Speeds    == {<<40>>, <<80>>}

TrailSample(speed) == Sample("HAM", Num(10), Num(5), <<1>>, speed)

TrailNext ==
    \/ SetTrackData(SquareTrack)
    \/ \E dt \in TimeSteps, eps \in ReadGaps, sp \in Speeds :
          /\ clock + dt + eps <= MaxClock
          /\ SetCars(<<TrailSample(sp)>>, dt, eps)
    \/ \E dt \in TimeSteps, eps \in ReadGaps :
          /\ clock + dt + eps <= MaxClock
          /\ AnimationFrame(dt, eps)

SpecTrail == Init /\ [][TrailNext]_vars

(* Two cars on the square track, a second or 2.5 seconds apart: each sample  *)
(* is slower than, at or above the trail speed, or without a speed; VER may  *)
(* be missing from an update or lack a coordinate.  The track is loaded     *)
(* once.                                                                     *)
TrailSpeeds == {<<50>>, <<80>>, Undefined}

TwoCarLists ==
    {<<Sample("HAM", Num(2), Num(3), <<1>>, sp)>> : sp \in TrailSpeeds}
    \cup {<<Sample("HAM", Num(2), Num(3), <<1>>, sp), Sample("VER", Num(8), Num(1), <<2>>, sv)>> :
             sp \in TrailSpeeds, sv \in {<<49>>, <<51>>}}
    \cup {<<Sample("HAM", Num(2), Num(3), <<1>>, <<80>>),
             Sample("VER", Undefined, Num(1), <<2>>, <<80>>)>>}

SpeedsNext ==
    \/ ~trackData.present /\ SetTrackData(SquareTrack)
    \/ \E dt \in {1000, 2500}, cs \in TwoCarLists :
          /\ clock + dt <= MaxClock
          /\ SetCars(cs, dt, 0)
    \/ \E dt \in {1000, 2500} :
          /\ clock + dt <= MaxClock
          /\ AnimationFrame(dt, 0)

SpecSpeeds == Init /\ [][SpeedsNext]_vars

(* One 3D car whose heading changes between frames.  car.angle is used as it *)
(* arrives: the values cover both sides of the +/-pi wraparound of the       *)
(* target and of the heading itself.                                         *)
AngleInputs == {-470, -469, -312, -157, 0, 3, 155, 156, 314}

HeadingNext ==
    \/ \E a \in AngleInputs : SetCarAngle(a)
    \/ Car3DFrame

SpecHeading == Init /\ [][HeadingNext]_vars

(* The dashboard with insight requests of three drivers, started and settled *)
(* in any order.                                                             *)
DashNext ==
    \/ \E d \in Drivers : GenerateDriverInsight(d)
    \/ \E d \in Drivers, o \in Outcomes, r \in Reports : SettleDriverInsight(d, o, r)

SpecDash == Init /\ [][DashNext]_vars

(* The 3D camera: a car is followed or released, samples and track arrive.   *)
Sample3D(name, x, y, angle) == [name |-> name, x |-> Num(x), y |-> Num(y), angle |-> angle]

CarLists3D ==
    { << >>,
      <<Sample3D("HAM", 100, 40, 0)>>,
      <<Sample3D("HAM", 120, 40, 0), Sample3D("VER", 60, -20, 157)>> }

CameraNext ==
    \/ \E name \in {Null, "HAM", "VER"} : SetFollow3D(name)
    \/ \E cs \in CarLists3D : SetCars3D(cs)
    \/ \E td \in {NullTrack, SquareTrack, WideTrack} : SetTrack3D(td)
    \/ CameraFrame

SpecCamera == Init /\ [][CameraNext]_vars

(* The telemetry panel: the parent selects HAM, VER or no car, and each tick *)
(* brings a cars array with both, with HAM only, or empty.  VER's sample     *)
(* lacks the throttle.                                                       *)
TelemetrySample(name, speed, throttle, brake, rpm) ==
    [name |-> name, speed |-> speed, throttle |-> throttle, brake |-> brake, rpm |-> rpm]

TelemetryHam == TelemetrySample("HAM", Num(80), <<1, 2>>, Num(0), Num(9000))
TelemetryVer == TelemetrySample("VER", Num(120), Undefined, <<1, 4>>, Num(11000))

TelemetryCarLists == { << >>, <<TelemetryHam>>, <<TelemetryHam, TelemetryVer>> }

TelemetryNext ==
    \/ \E name \in {Null, "HAM", "VER"} : SelectCar(name)
    \/ \E cs \in TelemetryCarLists : TelemetryTick(cs)

SpecTelemetry == Init /\ [][TelemetryNext]_vars

(* The weather the parent passes to FilterBar and WeatherPanel: rain from 0  *)
(* to 1 and track temperatures from -5 to 50 degrees, with the values at and *)
(* next to each threshold.                                                   *)
RainInputs == {Num(0), <<1, 10>>, <<29, 100>>, <<3, 10>>, <<31, 100>>, <<1, 2>>, <<3, 5>>, <<4, 5>>, Num(1)}
TempInputs ==
    {Num(-5), Num(0), Num(15), <<199, 10>>, Num(20), <<201, 10>>, Num(25), Num(30),
     <<349, 10>>, Num(35), <<351, 10>>, Num(40), Num(50)}

WeatherNext == \E rain \in RainInputs, trackTemp \in TempInputs : SetWeather(rain, trackTemp)

SpecWeather == Init /\ [][WeatherNext]_vars

-----------------------------------------------------------------------------
(* Properties of the 2D view transform.                                      *)

Le(a, b) == a = b \/ Lt(a, b)
AbsNum(a) == IF Lt(a, Num(0)) THEN Neg(a) ELSE a
\* |a - b| <= 1 for finite a and b
Within1(a, b) == IsFinite(a) /\ IsFinite(b) /\ Le(AbsNum(Sub(a, b)), Num(1))
FinitePoint(pt) == IsFinite(pt[1]) /\ IsFinite(pt[2])

HasTrack == trackData.present /\ trackData.hasPoints /\ ~fault
BoxMinX == MinOf(Xs(trackData.points))
BoxMaxX == MaxOf(Xs(trackData.points))
BoxMinY == MinOf(Ys(trackData.points))
BoxMaxY == MaxOf(Ys(trackData.points))
SurfaceCentre == <<Div(Num(canvas[1]), Num(2)), Div(Num(canvas[2]), Num(2))>>
BoxCentroid == <<Div(Add(BoxMinX, BoxMaxX), Num(2)), Div(Add(BoxMinY, BoxMaxY), Num(2))>>
DegenerateBox == Len(trackData.points) > 0 /\ (BoxMinX = BoxMaxX \/ BoxMinY = BoxMaxY)

\* C4: for every track of at least 3 points, with no followed car and pan (0,0),
\* the transform of the frame has a scale > 0 and maps the centroid of the
\* track's bounding box to the centre of the canvas, within 1 pixel.
C4_CentroidAtCentre ==
    (HasTrack /\ Len(trackData.points) >= 3 /\ followCar = Null /\ pan = NoPan)
        => /\ transform # << >>
           /\ Lt(Num(0), transform[1])
           /\ LET c == Transform(transform, BoxCentroid[1], BoxCentroid[2])
              IN  Within1(c[1], SurfaceCentre[1]) /\ Within1(c[2], SurfaceCentre[2])

\* C5: the transform never divides by zero: over a bounding box of zero width
\* or zero height the base scale is the default 1 (so the scale is the zoom)
\* and every track point is mapped to finite coordinates.
C5_DegenerateBoxDefaultScale ==
    (HasTrack /\ DegenerateBox /\ followCar = Null)
        => /\ transform # << >>
           /\ transform[1] = Mul(Num(1), zoom)
           /\ \A i \in 1..Len(drawnTrack) : FinitePoint(drawnTrack[i])

ClampedRequest ==
    IF Lt(zoomRequest, ZoomMin) THEN ZoomMin
    ELSE IF Lt(ZoomMax, zoomRequest) THEN ZoomMax
    ELSE zoomRequest

\* C6: after any sequence of zoom-in, zoom-out and reset-view the zoom is within
\* [0.5, 3.0]; a zoom step that would leave the range ends at the nearest bound;
\* and the scale of the frame is the base scale times that zoom (68 times the
\* zoom for the 10 x 10 square track on the 1200 x 800 canvas).
C6_ZoomClamped ==
    /\ Le(ZoomMin, zoom) /\ Le(zoom, ZoomMax)
    /\ zoomRequest # << >> => zoom = ClampedRequest
    /\ (trackData = SquareTrack /\ ~fault) => transform[1] = Mul(Num(68), zoom)

\* a zoom-in pressed at the upper bound was clamped, and a frame drawn with it
C6_Witness ==
    /\ zoomRequest = <<31, 10>> /\ zoom = ZoomMax
    /\ trackData = SquareTrack /\ transform[1] = Num(204)

\* the car render() looks up for the follow mode (0: none)
Followed ==
    IF followCar # Null /\ Len(interpolatedCars) > 0
    THEN FindCar(interpolatedCars, followCar, 1) ELSE 0

C12_PanIsPixelTranslation ==
    HasTrack =>
        \E tf0 \in {ComputeTransform(trackData.points, canvas, zoom, NoPan, followCar,
                                      interpolatedCars)} :
            /\ transform[1] = tf0[1]
            /\ \A i \in 1..Len(trackData.points) :
                  \E at0 \in {Transform(tf0, Num(trackData.points[i][1]),
                                             Num(trackData.points[i][2]))} :
                      drawnTrack[i] = <<Add(at0[1], pan[1]), Add(at0[2], pan[2])>>

\* a frame drawn zoomed in, following HAM, with the view dragged by (30, -20)
C12_Witness ==
    /\ HasTrack /\ trackData = WideTrack
    /\ pan = <<Num(30), Num(-20)>>
    /\ Lt(Num(1), zoom)
    /\ followCar = "HAM" /\ Followed = 1
    /\ FinitePoint(drawnTrack[1])

\* the fit ratios of the two axes, with the padding of 60 on each side
FitX == Div(Num(canvas[1] - 120), Sub(BoxMaxX, BoxMinX))
FitY == Div(Num(canvas[2] - 120), Sub(BoxMaxY, BoxMinY))

InsideInset(pt) ==
    /\ Le(Num(60), pt[1]) /\ Le(pt[1], Num(canvas[1] - 60))
    /\ Le(Num(60), pt[2]) /\ Le(pt[2], Num(canvas[2] - 60))

\* C13: over a bounding box of non-zero width and height the scale is the
\* smaller of the two fit ratios (one factor for both axes) times the zoom, and
\* at zoom 1, pan (0,0) and with no followed car every track point is drawn
\* inside the canvas inset by 60 pixels on all four sides.
C13_UniformFitScale ==
    (HasTrack /\ Len(trackData.points) > 0 /\ ~DegenerateBox)
        => /\ transform[1] = Mul(IF Lt(FitY, FitX) THEN FitY ELSE FitX, zoom)
           /\ (zoom = Num(1) /\ pan = NoPan /\ followCar = Null)
                  => \A i \in 1..Len(drawnTrack) : InsideInset(drawnTrack[i])

\* the 60 x 20 track at zoom 1: the horizontal fit 18 is the smaller one, and
\* the first point is drawn on the left edge of the inset
C13_Witness ==
    /\ HasTrack /\ trackData = WideTrack
    /\ zoom = Num(1) /\ pan = NoPan /\ followCar = Null
    /\ transform[1] = Num(18)
    /\ drawnTrack[1] = <<Num(60), Num(220)>>

Ranked(car) == car.position # Undefined

\* C7: the cars are drawn in ascending order of rank, and every car without a
\* rank is drawn after all the cars that have one.
C7_RankedAscendingMissingLast ==
    \A i, j \in 1..Len(drawnCars) :
        i < j => /\ (Ranked(drawnCars[i]) /\ Ranked(drawnCars[j]))
                        => drawnCars[i].position[1] <= drawnCars[j].position[1]
                 /\ ~(~Ranked(drawnCars[i]) /\ Ranked(drawnCars[j]))

\* the index of the car called name in cs (0 if there is none)
IndexOf(cs, name) == FindCar(cs, name, 1)

\* C8: two drawn cars of equal rank are drawn in their input order, and the
\* input array is not reordered: it is still the cars array the parent passed.
C8_StableAndPure ==
    /\ \A i, j \in 1..Len(drawnCars) :
          (i < j /\ drawnCars[i].position = drawnCars[j].position)
              => IndexOf(interpolatedCars, drawnCars[i].name)
                    < IndexOf(interpolatedCars, drawnCars[j].name)
    /\ Len(cars) > 0 => interpolatedCars = cars

\* three cars drawn: the last of the input first (lowest rank), then two of equal
\* rank in input order
C8_Witness ==
    /\ Len(drawnCars) = 3
    /\ drawnCars[1].name = "LEC" /\ drawnCars[2].name = "HAM" /\ drawnCars[3].name = "VER"
    /\ drawnCars[2].position = <<2>> /\ drawnCars[3].position = <<2>>

Identity == <<Num(1), Num(0), Num(0)>>

\* C10: rendering a track of zero points, or track data without a points list,
\* raises no fault: the transform is the identity and neither track nor cars
\* are drawn.
C10_EmptyTrackRendersNothing ==
    (trackData.present /\ (~trackData.hasPoints \/ trackData.points = << >>))
        => /\ ~fault
           /\ transform = Identity
           /\ drawnTrack = << >>
           /\ drawnCars = << >>

-----------------------------------------------------------------------------
(* Properties of the car trails.                                             *)

Fast(car) == car.speed # Undefined /\ car.speed[1] > SpeedTrailMin

\* C1: after a trail update of a car (the frame drew it with speed > 50, at the
\* time the clock now shows) its trail has at most 20 entries and none that is
\* more than 2000 ms older than that time.
C1_TrailBounded ==
    \A k \in 1..Len(drawnCars) :
        Fast(drawnCars[k]) =>
            LET trail == TrailOf(carTrails, drawnCars[k].name)
            IN  /\ Len(trail) <= TrailCapacity
                /\ \A i \in 1..Len(trail) : clock - trail[i].time <= TrailMaxAge

\* a full trail just updated, whose oldest entry is exactly 2000 ms old, after
\* older entries were evicted
C1_Witness ==
    /\ Len(drawnCars) = 1 /\ Fast(drawnCars[1])
    /\ Len(TrailOf(carTrails, "HAM")) = TrailCapacity
    /\ carTrails["HAM"][1].time > 0
    /\ clock - carTrails["HAM"][1].time = TrailMaxAge

Sorted(trail) == \A i, j \in 1..Len(trail) : i < j => trail[i].time <= trail[j].time

\* trail without its first k entries
DropFront(trail, k) == SubSeq(trail, k + 1, Len(trail))

\* C19: the timestamps of every trail are non-decreasing from front to back,
\* and a step changes a trail only by removing entries from its front and
\* adding one entry at its back.
C19_TrailOldestFirst ==
    /\ [](\A n \in DOMAIN carTrails : Sorted(carTrails[n]))
    /\ [][\A n \in DOMAIN carTrails' :
             \E k \in 0..Len(TrailOf(carTrails, n)) :
                 \/ carTrails'[n] = DropFront(TrailOf(carTrails, n), k)
                 \/ /\ Len(carTrails'[n]) > 0
                    /\ carTrails'[n] = Append(DropFront(TrailOf(carTrails, n), k),
                                              carTrails'[n][Len(carTrails'[n])])]_vars

\* a trail with entries of three different times, the newest pushed last,
\* after the entries of time 0 were evicted by age
C19_Witness ==
    /\ "HAM" \in DOMAIN carTrails /\ Len(carTrails["HAM"]) = 4
    /\ carTrails["HAM"][1].time = 1000 /\ carTrails["HAM"][2].time = 2000
    /\ carTrails["HAM"][3].time = 2000 /\ carTrails["HAM"][4].time = 3000
    /\ clock = 4000

\* the specified eviction order: append, evict from the front while the front
\* is older than 2000 ms, then evict from the front while there are more than 20
RECURSIVE EvictAged(_, _)
EvictAged(trail, now) ==
    IF trail # << >> /\ now - Head(trail).time > 2000 THEN EvictAged(Tail(trail), now) ELSE trail
RECURSIVE EvictOver(_)
EvictOver(trail) == IF Len(trail) > 20 THEN EvictOver(Tail(trail)) ELSE trail
SpecifiedUpdate(trail, entry, now) == EvictOver(EvictAged(Append(trail, entry), now))

\* C20: in every step that draws a fast car, the car's new trail is what the
\* specified order of eviction yields from its old trail, the entry pushed and
\* the time of the age eviction.
C20_SameAsSpecifiedOrder ==
    [][(trackData'.present /\ trackData'.hasPoints /\ ~fault')
          => \A k \in 1..Len(drawnCars') :
                Fast(drawnCars'[k]) =>
                    \E new \in {TrailOf(carTrails', drawnCars'[k].name)} :
                        /\ new # << >>
                        /\ new = SpecifiedUpdate(TrailOf(carTrails, drawnCars'[k].name),
                                                 new[Len(new)], clock')]_vars

\* a full trail whose front is exactly 2000 ms old: older entries went by age,
\* and the push into the full trail took one more from the front
C20_Witness ==
    /\ Len(drawnCars) = 1 /\ Fast(drawnCars[1])
    /\ Len(TrailOf(carTrails, "HAM")) = TrailCapacity
    /\ carTrails["HAM"][1].time = 1000
    /\ carTrails["HAM"][TrailCapacity].time = 3000
    /\ clock = 3000

-----------------------------------------------------------------------------
(* Properties of the heading smoothing.                                      *)

\* C2: the heading delta of a frame is the shortest signed angular difference:
\* it lies in (-pi, pi] and is congruent to target - current modulo 2*pi.
C2_ShortestSignedDelta ==
    /\ -Pi < normalizedDiff /\ normalizedDiff <= Pi
    /\ (normalizedDiff - angleDiff) % TwoPi = 0

\* how far below +pi the heading was before the frame, and how far above -pi
\* the target is
BelowPi == Pi - (targetRotation - angleDiff)
AbovePi == targetRotation + Pi
Small(n) == 0 < n /\ n <= 3

\* C3: with the heading just under +pi (pi - a) and the target just over -pi
\* (-pi + b), a and b small and positive, the heading delta of the frame is
\* the small positive a + b, not a value near 2*pi in magnitude.
C3_WraparoundDeltaSmall ==
    (Small(BelowPi) /\ Small(AbovePi))
        => normalizedDiff = BelowPi + AbovePi

\* the angular distance of a difference d: |d| taken modulo 2*pi, in [0, pi]
AngularDistance(d) == IF (d % TwoPi) > Pi THEN TwoPi - (d % TwoPi) ELSE (d % TwoPi)

\* the rotation before the last frame, and the step that frame made
RotationBefore == targetRotation - angleDiff
FrameStep      == currentRotation - RotationBefore

\* C21: a frame leaves the rotation no further (modulo 2*pi) from the target it
\* moved toward than it was before, and turns the car by no more than 0.1*pi.
C21_FrameNeverOvershoots ==
    /\ AngularDistance(targetRotation - currentRotation) <= AngularDistance(angleDiff)
    /\ 10 * Abs(FrameStep) <= Pi

-----------------------------------------------------------------------------
(* Properties of the insight fetch.                                          *)

\* C9: a step in which a request settles with a failure (success:false body, a
\* non-2xx status, a thrown error) leaves the report cache as it was for every
\* driver.
C9_FailedFetchKeepsCache ==
    [][(inFlight' # inFlight /\ inFlight' \subseteq inFlight /\ lastSettled'[2] \in Failures)
          => mlInsights' = mlInsights]_vars

\* Hamilton's fetch ended with success:false while Verstappen's report was
\* cached: Hamilton has none, Verstappen's is still there
C9_Witness ==
    /\ lastSettled = <<"Hamilton", "successFalse">>
    /\ mlInsights["Hamilton"] = "unset"
    /\ mlInsights["Verstappen"] = "report1"

\* the sample has both coordinates
HasCoordinates(car) == car.x # Undefined /\ car.y # Undefined

OnlyWithCoordinates(cs) == \A k \in 1..Len(cs) : HasCoordinates(cs[k])
KeepsWithCoordinates(from, cs) ==
    \A i \in 1..Len(from) : HasCoordinates(from[i]) => \E k \in 1..Len(cs) : cs[k] = from[i]

\* C17: a sample whose x or y is undefined is not drawn in the 2D view, the
\* minimap or the 3D view, while the samples of the same tick that have both
\* are; and no step adds a trail entry for a car whose sample lacks one.
C17_UndefinedNotRenderable ==
    /\ [](/\ OnlyWithCoordinates(drawnCars)
          /\ OnlyWithCoordinates(MinimapCars(trackData, interpolatedCars))
          /\ OnlyWithCoordinates(Cars3D(cars))
          /\ KeepsWithCoordinates(cars, Cars3D(cars))
          /\ HasTrack => /\ KeepsWithCoordinates(interpolatedCars, drawnCars)
                         /\ KeepsWithCoordinates(interpolatedCars,
                                                 MinimapCars(trackData, interpolatedCars)))
    /\ [][\A i \in 1..Len(interpolatedCars') :
             ~HasCoordinates(interpolatedCars'[i])
                 => TrailOf(carTrails', interpolatedCars'[i].name)
                      = TrailOf(carTrails, interpolatedCars'[i].name)]_vars

\* a tick of three fast cars of which VER lacks x and LEC lacks y: only HAM is
\* drawn and only HAM's trail grew
C17_Witness ==
    /\ HasTrack /\ Len(interpolatedCars) = 3
    /\ interpolatedCars[2].x = Undefined /\ interpolatedCars[3].y = Undefined
    /\ Len(drawnCars) = 1 /\ drawnCars[1].name = "HAM"
    /\ Len(TrailOf(carTrails, "HAM")) = 2
    /\ TrailOf(carTrails, "VER") = << >> /\ TrailOf(carTrails, "LEC") = << >>

-----------------------------------------------------------------------------
(* Properties of the render loop.                                            *)

\* C16: at most one animation-frame callback of the view is pending at any
\* time, whatever the interleaving of frames with the changes that re-create
\* render, and none is pending once the view is unmounted.
C16_OneFramePending ==
    /\ Cardinality(pendingFrames) <= 1
    /\ ~mounted => pendingFrames = {}

\* a view unmounted while its loop was running: the last render ran to its
\* end and requested a frame, which the cleanup cancelled
C16_Witness ==
    /\ ~mounted /\ HasTrack
    /\ animationFrameRef # 0 /\ pendingFrames = {}
    /\ Len(drawnCars) > 0 /\ pan # NoPan

-----------------------------------------------------------------------------
\* the viewer renders the ML section of a driver iff mlInsights[driver.name] is
\* truthy
ShowsMlSection(d) == mlInsights[d] # "unset"

\* C14: once a request of a driver has ended with a failure, the viewer shows
\* no ML section for that driver, whatever requests ended before it.
C14_FailureShowsNoReport ==
    (lastSettled # << >> /\ lastSettled[2] \in Failures)
        => ~ShowsMlSection(lastSettled[1])

\* C15: a step of one driver's request (its start or its end) leaves every
\* other driver's cached report and generating flag as they were; a start sets
\* that driver's flag, an end clears it, and an end with success puts the
\* driver's report into the cache.  So two requests in flight together that
\* both succeed leave both reports cached, in either order of completion.
C15_ConcurrentFetchesIndependent ==
    [][\A d \in Drivers :
          ((d \in inFlight) # (d \in inFlight'))
              => /\ \A e \in Drivers \ {d} :
                      /\ mlInsights'[e] = mlInsights[e]
                      /\ generatingInsights'[e] = generatingInsights[e]
                 /\ d \in inFlight' => generatingInsights'[d] = "true"
                 /\ d \in inFlight => generatingInsights'[d] = "false"
                 /\ (d \in inFlight /\ lastSettled'[2] = "ok") => mlInsights'[d] \in Reports]_vars

\* Hamilton's and Verstappen's only requests were in flight together, both
\* succeeded, Hamilton's last: both reports are cached and both flags cleared
C15_Witness ==
    /\ calls = [d \in Drivers |-> IF d = "Leclerc" THEN 0 ELSE 1]
    /\ peakInFlight = 2 /\ inFlight = {}
    /\ lastSettled = <<"Hamilton", "ok">>
    /\ mlInsights["Hamilton"] = "report1" /\ mlInsights["Verstappen"] = "report2"
    /\ generatingInsights["Hamilton"] = "false" /\ generatingInsights["Verstappen"] = "false"

\* C18: every invocation of the handler issues exactly one POST for its driver,
\* whatever the outcome: the POSTs of a driver are as many as the invocations,
\* also after a failure, which leaves no request of that driver in flight.
C18_OnePostPerInvocation ==
    /\ \A d \in Drivers : posts[d] = calls[d]
    /\ \A d \in Drivers : (d \in inFlight) <=> (generatingInsights[d] = "true")
    /\ (lastSettled # << >> /\ calls[lastSettled[1]] = 1) => lastSettled[1] \notin inFlight

\* Leclerc's only request failed on the network: one POST, none in flight
C18_Witness ==
    /\ lastSettled = <<"Leclerc", "networkError">>
    /\ calls["Leclerc"] = 1 /\ posts["Leclerc"] = 1
    /\ "Leclerc" \notin inFlight

-----------------------------------------------------------------------------
\* the car the 3D view follows, 0 if none is followed or the name matches none
Followed3D == IF follow3D = Null THEN 0 ELSE FindCar(cars3D, follow3D, 1)

\* C23: every frame of the 3D camera with no car followed moves the orbit
\* target 0.05 of the way toward (trackCenter[0], 0, trackCenter[1]); every
\* frame with a followed car among the samples moves the target 0.05 of the
\* way toward that car and the camera 0.05 of the way toward the point 30
\* behind and 25 above it.
C23_CameraFollowsCarOrCentre ==
    justFramed =>
        /\ follow3D = Null
              => controlsTarget = Lerp(targetBefore, <<trackCenter[1], Num(0), trackCenter[2]>>,
                                       <<1, 20>>)
        /\ Followed3D # 0
              => /\ controlsTarget =
                      Lerp(targetBefore,
                           <<cars3D[Followed3D].x, Num(0), cars3D[Followed3D].y>>, <<1, 20>>)
                 /\ cameraPosition[2] = Lerp(cameraBefore, <<Num(0), Num(25), Num(0)>>, <<1, 20>>)[2]

-----------------------------------------------------------------------------
\* the samples of the latest cars update that have both coordinates
LatestDrawable == {cars[i] : i \in {j \in 1..Len(cars) : cars[j].x # Undefined /\ cars[j].y # Undefined}}

\* C24: the samples of each cars update supersede those of the update before:
\* whenever the track is drawn, the samples drawn are exactly those of the
\* latest update (that have coordinates), so a car absent from the latest
\* update, also from an empty one, is not drawn.
C24_LatestUpdateDrawn ==
    HasTrack => {drawnCars[i] : i \in 1..Len(drawnCars)} = LatestDrawable

-----------------------------------------------------------------------------
\* the generate button of driver d is disabled iff generatingInsights[d] is
\* truthy
ButtonDisabled(d) == generatingInsights[d] = "true"

\* C25: a driver's button is disabled exactly while a request of that driver
\* is in flight: the flag is true from the start of the fetch until it
\* settles, and false after it settled with any outcome; a step that starts
\* or ends the request of one driver leaves every other driver's flag as it
\* was.
C25_FlagTrueOnlyWhileInFlight ==
    /\ [](\A d \in Drivers :
            /\ ButtonDisabled(d) <=> d \in inFlight
            /\ (calls[d] > 0 /\ d \notin inFlight) => generatingInsights[d] = "false")
    /\ [][\A d \in Drivers :
            generatingInsights'[d] # generatingInsights[d]
                => /\ (d \in inFlight) # (d \in inFlight')
                   /\ \A e \in Drivers \ {d} : (e \in inFlight) = (e \in inFlight')
                   /\ d \in inFlight => (lastSettled' = <<d, lastSettled'[2]>> /\ ~ButtonDisabled(d)')]_vars

\* Verstappen's request ended with a non-2xx status and an unparsable body
\* while Hamilton's was in flight: Verstappen's button is enabled again,
\* Hamilton's is still disabled
C25_Witness ==
    /\ lastSettled = <<"Verstappen", "non2xxBadBody">>
    /\ generatingInsights["Verstappen"] = "false"
    /\ "Hamilton" \in inFlight /\ generatingInsights["Hamilton"] = "true"
    /\ generatingInsights["Leclerc"] = "unset"

-----------------------------------------------------------------------------
\* what carTrailsRef holds for a name: its trail, or nothing
Stored(trails, n) == IF n \in DOMAIN trails THEN <<trails[n]>> ELSE << >>

\* the step ran a render that drew the car named n with speed > 50
DrawnFast(n) ==
    /\ trackData'.present /\ trackData'.hasPoints /\ ~fault'
    /\ \E k \in 1..Len(drawnCars') : drawnCars'[k].name = n /\ Fast(drawnCars'[k])

\* C26: a step changes the stored trail of a car only if its render drew that
\* car with speed > 50: the trail of a car drawn with speed <= 50 or without a
\* speed, and of a car not drawn, stays as it was, whatever happens to the
\* other cars' trails; and the trail of a car drawn with speed > 50 is made of
\* entries of its own old trail and one new entry at that car's position.
C26_TrailTouchedOnlyWhenFast ==
    [][\A n \in {"HAM", "VER"} :
          IF DrawnFast(n)
          THEN \E new \in {TrailOf(carTrails', n)}, car \in {drawnCars'[k] : k \in 1..Len(drawnCars')} :
                  /\ car.name = n /\ new # << >>
                  /\ <<new[Len(new)].x, new[Len(new)].y>> = Transform(transform', car.x, car.y)
                  /\ \E j \in 0..Len(TrailOf(carTrails, n)) :
                        SubSeq(new, 1, Len(new) - 1) = DropFront(TrailOf(carTrails, n), j)
          ELSE Stored(carTrails', n) = Stored(carTrails, n)]_vars

\* frames drew HAM slow and VER fast: HAM's trail of two entries, the older
\* one 3000 ms old by now, is as it was; VER's has an entry of each frame
C26_Witness ==
    /\ Len(drawnCars) = 2 /\ clock = 4000
    /\ ~Fast(drawnCars[1]) /\ drawnCars[1].name = "HAM"
    /\ Fast(drawnCars[2]) /\ drawnCars[2].name = "VER"
    /\ Len(TrailOf(carTrails, "HAM")) = 2 /\ carTrails["HAM"][1].time = 1000
    /\ Len(TrailOf(carTrails, "VER")) = 2 /\ carTrails["VER"][2].time = 4000

-----------------------------------------------------------------------------
\* the last n elements of seq (all of them if there are fewer)
Newest(seq, n) ==
    [i \in 1..(IF Len(seq) < n THEN Len(seq) ELSE n) |->
        seq[i + (IF Len(seq) < n THEN 0 ELSE Len(seq) - n)]]

\* C27: the telemetry history holds at most 50 points; it is the newest (at
\* most 50) of the points recorded so far, in the order of recording, with
\* strictly increasing time values; and a step records a point only if a car
\* is selected and a sample of the current cars array has its name.
C27_HistoryIsNewestFifty ==
    /\ [](/\ Len(telemetryData) <= 50
          /\ telemetryData = Newest(recorded, 50)
          /\ \A i \in 1..(Len(telemetryData) - 1) :
                Lt(Num(telemetryData[i].time), Num(telemetryData[i + 1].time)))
    /\ [][recorded' # recorded
            => /\ selectedCar' # Null
               /\ \E k \in 1..Len(telemetryCars') : telemetryCars'[k].name = selectedCar'
               /\ Len(recorded') = Len(recorded) + 1]_vars

\* 52 points were recorded: the history holds the 50 newest, times 2 to 51
C27_Witness ==
    /\ Len(recorded) = 52 /\ Len(telemetryData) = 50
    /\ telemetryData[1].time = 2 /\ telemetryData[50].time = 51

\* C28: a change of the selected car resets neither the history nor the time
\* counter: the step keeps the counter or advances it by one and keeps the
\* history or appends one point to it (dropping the oldest of 50); so the
\* counter is the number of points recorded, and every point recorded among
\* the last 50, for whichever car, is in the history.
C28_SelectionKeepsHistory ==
    /\ [](/\ timeRef = Len(recorded)
          /\ \A i \in 1..Len(recorded) :
                recorded[i].time + 50 >= timeRef
                    => \E j \in 1..Len(telemetryData) : telemetryData[j] = recorded[i])
    /\ [][selectedCar' # selectedCar
            => \/ timeRef' = timeRef /\ telemetryData' = telemetryData
               \/ /\ timeRef' = timeRef + 1
                  /\ telemetryData' # << >>
                  /\ telemetryData'[Len(telemetryData')].time = timeRef
                  /\ telemetryData' =
                        Newest(Append(telemetryData, telemetryData'[Len(telemetryData')]), 50)]_vars

\* HAM was selected, then VER: the history of 50 points starts with points of
\* HAM (speed 80) and ends with points of VER (speed 120); the two oldest
\* points have been displaced
C28_Witness ==
    /\ selectedCar = "VER" /\ selections = 2 /\ timeRef = 52
    /\ Len(telemetryData) = 50
    /\ telemetryData[1].speed = Num(80) /\ telemetryData[1].time = 2
    /\ telemetryData[30].speed = Num(80) /\ telemetryData[31].speed = Num(120)
    /\ telemetryData[50].speed = Num(120)

-----------------------------------------------------------------------------
\* the pan of a drag that began at pan p0 with the pointer at e0, once the
\* pointer is at e
DraggedPan(p0, e0, e) == <<Add(p0[1], Num(e[1] - e0[1])), Add(p0[2], Num(e[2] - e0[2]))>>

\* C29: a drag is on exactly from a left-button mouse-down to the next mouse-up
\* or mouse-leave.  A step changes the pan only while a drag is on, to the pan
\* at the mouse-down plus the displacement of the pointer since then, or by
\* reset-view; the start and the end of a drag leave the pan as it is; and
\* reset-view sets zoom 1.0, pan (0, 0) and no followed car from any state.
C29_PanOnlyByDrag ==
    /\ [](isDragging <=> downPointer # << >>)
    /\ [][/\ pan' # pan
               => \/ /\ isDragging /\ isDragging'
                     /\ \E e \in MousePoints :
                           pan' = DraggedPan(downPan, downPointer, e)
                  \/ pan' = NoPan /\ zoom' = Num(1) /\ followCar' = Null
          /\ (~isDragging /\ isDragging') => (pan' = pan /\ downPan' = pan)
          /\ (isDragging /\ ~isDragging') => pan' = pan
          /\ ResetView => (zoom' = Num(1) /\ pan' = NoPan /\ followCar' = Null)]_vars

\* a second drag began at pan (30, -20) with the pointer at (130, 80) and has
\* moved the pointer to (100, 100): the pan is (0, 0) again
C29_Witness ==
    /\ isDragging /\ downPointer = <<130, 80>>
    /\ downPan = <<Num(30), Num(-20)>>
    /\ pan = NoPan /\ zoom # Num(1)

-----------------------------------------------------------------------------
\* C30: FilterBar and WeatherPanel show the same tyre recommendation for the
\* same weather: WET iff rain > 0.3; otherwise SOFT if track_temp > 35, HARD if
\* track_temp < 20, and MEDIUM if it is from 20 to 35.
C30_SameTyreRecommendation ==
    /\ filterBarTyre = weatherPanelTyre
    /\ filterBarTyre = "WET" <=> Lt(<<3, 10>>, weather[1])
    /\ ~Lt(<<3, 10>>, weather[1])
          => /\ Lt(Num(35), weather[2]) => filterBarTyre = "SOFT"
             /\ Lt(weather[2], Num(20)) => filterBarTyre = "HARD"
             /\ (Le(Num(20), weather[2]) /\ Le(weather[2], Num(35))) => filterBarTyre = "MEDIUM"

\* rain exactly 0.3 on a track of exactly 35 degrees: both recommend MEDIUM
C30_Witness ==
    /\ weather = <<(<<3, 10>>), Num(35)>>
    /\ filterBarTyre = "MEDIUM" /\ weatherPanelTyre = "MEDIUM"

=============================================================================
